---- MODULE Spec2Model ----
(***************************************************************************)
(* A model of the iNaturalist batch classifier: the per-image pipeline     *)
(* (inaturalist_uploader.py), the checkpointing batch driver and the file  *)
(* organizer (example_usage.py).                                           *)
(***************************************************************************)
EXTENDS Integers, Sequences, FiniteSets, TLC

\* ------------------------------------------------------------ bounds
\* The largest number of image files the folder holds.
MaxImages == 20
\* The largest number of images of one run whose scoring or lineage answer
\* is not the ordinary one.
MaxOdd == 1

\* ------------------------------------------------------------ program constants
\* example_usage.py:71  `if i % 10 == 0`
CheckpointEvery == 10

\* ------------------------------------------------------------ python values
\* A JSON field of integer type: the key is missing, holds null, or a number.
MissingI == [k |-> "missing", v |-> 0]
NullI == [k |-> "null", v |-> 0]
Num(n) == [k |-> "val", v |-> n]
\* A JSON field of string type.
MissingS == [k |-> "missing", v |-> ""]
NullS == [k |-> "null", v |-> ""]
Str(s) == [k |-> "val", v |-> s]
\* Python's None where a string is expected (json writes it as null).
NoneS == "None"

\* dict.get(key): a missing key and a null value both give None.
GetS(f) == IF f.k = "val" THEN f.v ELSE NoneS
\* dict.get(key, ''): only a missing key gives the default.
GetSDefault(f, d) == IF f.k = "missing" THEN d ELSE GetS(f)
\* dict.get(key, 0) on an integer field: null stays None.
GetIDefault(f, d) == IF f.k = "missing" THEN Num(d) ELSE f
\* Truth value of an integer field read with .get(): None and 0 are false.
TruthyI(f) == f.k = "val" /\ f.v # 0

\* ------------------------------------------------------------ file names and paths
\* A file name is a stem and its dot-separated extensions:
\* IMG_001.v2.jpg is [stem |-> 1, exts |-> <<"v2", "jpg">>].
Name(stem, exts) == [stem |-> stem, exts |-> exts]
Path(dir, name) == [dir |-> dir, name |-> name]
\* The i-th image of the source folder of the batch runs.
ImagePath(n) == Path(<<"in">>, Name(n, <<"jpg">>))

\* The extensions batch_process_images globs for, case-insensitively, in the
\* order of the five rglob calls.
ImagePatterns == <<"jpg", "jpeg", "png", "bmp", "tiff">>
LowerExt(e) ==
    CASE e \in {"JPG", "Jpg"} -> "jpg"
      [] e \in {"JPEG"} -> "jpeg"
      [] e \in {"PNG"} -> "png"
      [] e \in {"BMP"} -> "bmp"
      [] e \in {"TIFF"} -> "tiff"
      [] OTHER -> e
\* Whether a file name matches the pattern *.<ext> of the p-th rglob call.
MatchesPattern(name, p) ==
    /\ Len(name.exts) > 0
    /\ LowerExt(name.exts[Len(name.exts)]) = ImagePatterns[p]

\* A strict order on paths, standing for the order the directory walk yields.
DirRank(d) == Len(d)
PathBefore(a, b) ==
    \/ DirRank(a.dir) < DirRank(b.dir)
    \/ /\ DirRank(a.dir) = DirRank(b.dir)
       /\ a.name.stem < b.name.stem
    \/ /\ DirRank(a.dir) = DirRank(b.dir)
       /\ a.name.stem = b.name.stem
       /\ Len(a.name.exts) < Len(b.name.exts)

RECURSIVE SortPaths(_)
SortPaths(S) ==
    IF S = {} THEN <<>>
    ELSE LET first == CHOOSE a \in S : \A b \in S \ {a} : ~PathBefore(b, a)
         IN  <<first>> \o SortPaths(S \ {first})

RECURSIVE GlobFrom(_, _, _)
GlobFrom(files, folder, p) ==
    IF p > Len(ImagePatterns) THEN <<>>
    ELSE SortPaths({f \in files :
                      /\ Len(f.dir) >= Len(folder)
                      /\ SubSeq(f.dir, 1, Len(folder)) = folder
                      /\ MatchesPattern(f.name, p)})
         \o GlobFrom(files, folder, p + 1)

\* image_files: the five recursive globs under image_folder, concatenated.
ListImageFiles(files, folder) == GlobFrom(files, folder, 1)

\* ------------------------------------------------------------ the scoring answer
\* The answer of the score_image request as classify_image sees it:
\*   transport: "ok", or "error" when requests.post or response.json() raises;
\*   status_code; json: the decoded body, of which the pipeline reads
\*   common_ancestor = {score, taxon = {id, name, preferred_common_name}}.
TaxonField(k, id, name, common) ==
    [k |-> k, id |-> id, name |-> name, preferred_common_name |-> common]
NoTaxon(k) == TaxonField(k, MissingI, MissingS, MissingS)
CommonAncestor(k, score, taxon) ==
    [k |-> k, score |-> score, taxon |-> taxon, items |-> <<>>]
\* A common_ancestor that is a list of such records instead of one record.
CandidateList(items) ==
    [k |-> "list", score |-> MissingI, taxon |-> NoTaxon("missing"), items |-> items]
NoCommonAncestor(k) == CommonAncestor(k, MissingI, NoTaxon("missing"))
ScoreAnswer(transport, code, ca) ==
    [transport |-> transport, status_code |-> code, json |-> [common_ancestor |-> ca]]

\* What classify_image returns: None, or the decoded body.
NoneBody == [none |-> TRUE, common_ancestor |-> NoCommonAncestor("missing")]
Body(ca) == [none |-> FALSE, common_ancestor |-> ca]

\* INaturalistUploader.classify_image: every exception and every status other
\* than 200 gives None.
classify_image(answer) ==
    IF answer.transport = "ok" /\ answer.status_code = 200
    THEN Body(answer.json.common_ancestor)
    ELSE NoneBody

\* `not cv_result`: None and the empty dict are false; the body is empty when it
\* has no common_ancestor key (the only key modelled).
FalsyBody(b) == b.none \/ b.common_ancestor.k = "missing"
\* `not results` for results = cv_result.get('common_ancestor', []).
\* None, the default [] and an empty list are false; a record and a non-empty
\* list are true.
FalsyCommonAncestor(ca) ==
    IF ca.k = "list" THEN ca.items = <<>> ELSE ca.k # "dict"
\* `if taxon:` for taxon = best_result.get('taxon').
TruthyTaxon(t) == t.k = "dict"

\* INaturalistUploader.get_best_classification: the taxon of common_ancestor, or
\* None ([k |-> "missing"]) when there is no common_ancestor or no taxon in it.
get_best_classification(cv_result) ==
    LET results == cv_result.common_ancestor
    IN  IF FalsyCommonAncestor(results) THEN NoTaxon("missing")
        \* dict(results) on a list of records: ValueError, or a dict made of
        \* the records' key names, with no taxon one can read; None either way
        ELSE IF results.k = "list" THEN NoTaxon("missing")
        ELSE IF TruthyTaxon(results.taxon) THEN results.taxon
        ELSE NoTaxon("missing")

\* ------------------------------------------------------------ the lineage answer
\* A node of a lineage: rank and name as JSON fields.
Node(rank, name) == [rank |-> rank, name |-> name]
\* taxon_info = results[0] of get_taxa_by_id: empty is the empty dict; ancestors
\* is missing, null or a list of nodes, root first.
TaxonInfo(empty, rank, name, ak, ancestors) ==
    [empty |-> empty, rank |-> rank, name |-> name,
     ancestors |-> [k |-> ak, v |-> ancestors]]
EmptyTaxonInfo == TaxonInfo(TRUE, MissingS, MissingS, "missing", <<>>)
\* The answer of get_taxa_by_id: transport "error" when the call raises;
\* has_results: the answer is a dict with a 'results' key; results: its list.
LineageAnswer(transport, has_results, results) ==
    [transport |-> transport, has_results |-> has_results, results |-> results]

\* What get_detailed_taxonomy returns: None, or results[0].
NoneInfo == [none |-> TRUE, info |-> EmptyTaxonInfo]
Info(t) == [none |-> FALSE, info |-> t]

\* INaturalistUploader.get_detailed_taxonomy.
get_detailed_taxonomy(answer) ==
    IF answer.transport # "ok" THEN NoneInfo
    ELSE IF answer.has_results /\ Len(answer.results) > 0
         THEN Info(answer.results[1])
         ELSE NoneInfo
\* `not detailed_info`: None and the empty dict are false.
FalsyInfo(d) == d.none \/ d.info.empty

\* ------------------------------------------------------------ extract_hierarchy
\* str.lower() on the rank strings of the model.
Lower(s) ==
    CASE s \in {"Genus", "GENUS"} -> "genus"
      [] s \in {"Tribe"} -> "tribe"
      [] s \in {"Subfamily", "SUBFAMILY"} -> "subfamily"
      [] s \in {"Family"} -> "family"
      [] OTHER -> s

Hierarchy(s, t, g) == [subfamily |-> s, tribe |-> t, genus |-> g]
EmptyHierarchy == Hierarchy(NoneS, NoneS, NoneS)

\* One pass of the loop body for a taxon whose rank is a string: the if/elif
\* chain over the lower-cased rank.
AssignRank(hierarchy, rank, name) ==
    CASE rank = "family" -> [hierarchy EXCEPT !.subfamily = name]
      [] rank = "subfamily" -> [hierarchy EXCEPT !.subfamily = name]
      [] rank = "tribe" -> [hierarchy EXCEPT !.tribe = name]
      [] rank = "genus" -> [hierarchy EXCEPT !.genus = name]
      [] OTHER -> hierarchy

\* The loop over all_taxa from position n on. taxon.get('rank', '') is '' for
\* a missing key and None for null; None.lower() raises AttributeError, which
\* the enclosing try catches: the hierarchy as filled so far is returned.
RECURSIVE ScanTaxa(_, _, _)
ScanTaxa(all_taxa, n, hierarchy) ==
    IF n > Len(all_taxa) THEN hierarchy
    ELSE LET taxon == all_taxa[n]
         IN  IF taxon.rank.k = "null" THEN hierarchy
             ELSE ScanTaxa(all_taxa, n + 1,
                           AssignRank(hierarchy,
                                      Lower(GetSDefault(taxon.rank, "")),
                                      GetSDefault(taxon.name, "")))

\* current_taxon: built with taxon_info.get('rank') and .get('name'), so its
\* keys are always there and hold None when taxon_info lacks them.
CurrentTaxon(taxon_info) ==
    Node(IF taxon_info.rank.k = "val" THEN taxon_info.rank ELSE NullS,
         IF taxon_info.name.k = "val" THEN taxon_info.name ELSE NullS)

\* INaturalistUploader.extract_hierarchy. ancestors = None makes
\* `ancestors + [current_taxon]` raise; the except returns the empty hierarchy.
extract_hierarchy(taxon_info) ==
    IF taxon_info.ancestors.k = "null" THEN EmptyHierarchy
    ELSE LET ancestors == IF taxon_info.ancestors.k = "list"
                          THEN taxon_info.ancestors.v ELSE <<>>
         IN  ScanTaxa(ancestors \o <<CurrentTaxon(taxon_info)>>, 1, EmptyHierarchy)

\* ------------------------------------------------------------ process_image
\* The outcome of process_image: a result record, None, or an exception that
\* leaves the method.
NoResult ==
    [image_path |-> ImagePath(0), photo_id |-> NoneS, taxon_id |-> 0,
     taxon_name |-> NoneS, common_name |-> NoneS, score |-> 0,
     hierarchy |-> EmptyHierarchy]
Returned(r) == [kind |-> "result", value |-> r]
ReturnedNone == [kind |-> "none", value |-> NoResult]
Raised == [kind |-> "raise", value |-> NoResult]

\* The score of the result record:
\* cv_result['common_ancestor'].get('score', 0) if cv_result.get('common_ancestor') else 0
\* (a common_ancestor that is a list never gets here: process_image returned
\* when get_best_classification gave None).
ResultScore(cv_result) ==
    IF FalsyCommonAncestor(cv_result.common_ancestor) THEN Num(0)
    ELSE GetIDefault(cv_result.common_ancestor.score, 0)

\* print(f"... {result['score']:.3f}") raises TypeError when the score is None.
FormatScoreRaises(score) == score.k # "val"

\* INaturalistUploader.process_image on an image whose scoring request is
\* answered by `scoring` and whose lineage lookup by `lineage`.
process_image(image_path, scoring, lineage) ==
    LET cv_result == classify_image(scoring)
        best_taxon == get_best_classification(cv_result)
        taxon_id == best_taxon.id
        detailed_info == get_detailed_taxonomy(lineage)
        score == ResultScore(cv_result)
    IN  IF FalsyBody(cv_result) THEN ReturnedNone
        ELSE IF ~TruthyTaxon(best_taxon) THEN ReturnedNone
        ELSE IF ~TruthyI(taxon_id) THEN ReturnedNone
        ELSE IF FalsyInfo(detailed_info) THEN ReturnedNone
        ELSE IF FormatScoreRaises(score) THEN Raised
        ELSE Returned([image_path |-> image_path,
                       photo_id |-> NoneS,
                       taxon_id |-> taxon_id.v,
                       taxon_name |-> GetS(best_taxon.name),
                       common_name |-> GetS(best_taxon.preferred_common_name),
                       score |-> score.v,
                       hierarchy |-> extract_hierarchy(detailed_info.info)])

\* ------------------------------------------------------------ the answers of a run
\* The ordinary answers: a scored taxon with an id, and its lineage.
OrdinaryTaxon == TaxonField("dict", Num(7), Str("Spilosoma"), Str("ermine"))
OrdinaryScoring ==
    ScoreAnswer("ok", 200, CommonAncestor("dict", Num(950), OrdinaryTaxon))
OrdinaryLineage ==
    LineageAnswer("ok", TRUE,
        <<TaxonInfo(FALSE, Str("genus"), Str("Spilosoma"), "list",
                    <<Node(Str("family"), Str("Erebidae")),
                      Node(Str("subfamily"), Str("Arctiinae")),
                      Node(Str("tribe"), Str("Arctiini"))>>)>>)

\* The other answers of the scoring request (score in thousandths).
OddScorings ==
    { ScoreAnswer("error", 0, NoCommonAncestor("missing")),
      ScoreAnswer("ok", 500, NoCommonAncestor("missing")),
      ScoreAnswer("ok", 200, NoCommonAncestor("missing")),
      ScoreAnswer("ok", 200, NoCommonAncestor("null")),
      ScoreAnswer("ok", 200, CommonAncestor("dict", Num(950), NoTaxon("missing"))),
      ScoreAnswer("ok", 200, CommonAncestor("dict", Num(950), NoTaxon("null"))),
      ScoreAnswer("ok", 200, CommonAncestor("dict", Num(950),
          TaxonField("dict", MissingI, Str("Spilosoma"), MissingS))),
      ScoreAnswer("ok", 200, CommonAncestor("dict", Num(950),
          TaxonField("dict", NullI, Str("Spilosoma"), MissingS))),
      ScoreAnswer("ok", 200, CommonAncestor("dict", MissingI, OrdinaryTaxon)),
      ScoreAnswer("ok", 200, CommonAncestor("dict", NullI, OrdinaryTaxon)) }

\* The other answers of the lineage lookup.
OddLineages ==
    { LineageAnswer("error", FALSE, <<>>),
      LineageAnswer("ok", FALSE, <<>>),
      LineageAnswer("ok", TRUE, <<>>),
      LineageAnswer("ok", TRUE, <<EmptyTaxonInfo>>) }

Scenario(scoring, lineage) == [scoring |-> scoring, lineage |-> lineage]
OrdinaryScenario == Scenario(OrdinaryScoring, OrdinaryLineage)
OddScenarios ==
    {Scenario(s, OrdinaryLineage) : s \in OddScorings}
    \cup {Scenario(OrdinaryScoring, l) : l \in OddLineages}

\* ------------------------------------------------------------ the checkpoint file
\* output_file on disk: absent; garbage (bytes that are no JSON); scalar (JSON
\* that parses to a number, true, false or null); truncated (opened for
\* writing, the dump not finished); list (a complete dump of a result list).
FileOf(kind, data) == [kind |-> kind, data |-> data]
AbsentFile == FileOf("absent", <<>>)
GarbageFile == FileOf("garbage", <<>>)
ScalarFile == FileOf("scalar", <<>>)
TruncatedFile == FileOf("truncated", <<>>)

\* json.dump(all_results, f, ...) run to its end, and the file closed.
json_dump(all_results) == FileOf("list", all_results)
\* os.path.exists(output_file)
Exists(file) == file.kind # "absent"
\* json.load(f) returns a value (it raises on garbage and on a truncated dump).
Parses(file) == file.kind \in {"scalar", "list"}
\* len(existing_results) returns (it raises TypeError on a number, bool or None).
HasLen(file) == file.kind = "list"
\* The try block of the resume check returns existing_results.
LoadsExisting(file) == Exists(file) /\ Parses(file) /\ HasLen(file)

\* ------------------------------------------------------------ state
VARIABLES
    pc,            \* where main is
    exc,           \* the exception that ended the run, "" when none
    fs,            \* the files on disk other than output_file: path -> content
    output_file,   \* classification_results.json
    image_files,   \* batch_process_images: the enumerated images
    i,             \* batch_process_images: the loop counter
    all_results,   \* batch_process_images: the accumulated results
    ret,           \* what batch_process_images returned
    odd,           \* images of this run answered by an odd scenario
    outcomes,      \* history: what process_image gave for each image of this run
    file0,         \* history: output_file when this run started
    writes,        \* history: the points (i, final) of this run's completed dumps
    results,       \* move_images_by_classification: the list it was given
    k,             \* move_images_by_classification: results handled so far
    moved_count,   \* move_images_by_classification: its tally of moves
    skipped_count, \* move_images_by_classification: its tally of skips
    log,           \* history: what happened to each handled result
    extract_arg,   \* extract_hierarchy: its argument taxon_info
    extract_ret,   \* extract_hierarchy: the hierarchy it returned
    select_arg,    \* process_image: the answer to its scoring request
    select_ret,    \* process_image: its outcome
    mover,         \* FileMover: moved_count, skipped_count, error_count
    mv_call,       \* move_single_file: the arguments of the last call
    mv_ret,        \* move_single_file: what the last call returned
    run,           \* main: 1 in the first run of the tool, 2 in the second
    fs1            \* history: the files as the first run of the tool left them

batch_vars == <<image_files, i, all_results, ret, odd, outcomes, file0, writes>>
org_vars == <<results, k, moved_count, skipped_count, log>>
extract_vars == <<extract_arg, extract_ret>>
select_vars == <<select_arg, select_ret>>
mover_vars == <<mover, mv_call, mv_ret>>
main_vars == <<run, fs1>>
call_vars == <<extract_vars, select_vars, mover_vars, main_vars>>
vars == <<pc, exc, fs, output_file, batch_vars, org_vars, call_vars>>

\* FileMover.__init__, lines 30-32, and no call of move_single_file yet.
Counts(moved, skipped, error) ==
    [moved_count |-> moved, skipped_count |-> skipped, error_count |-> error]
NoCall == [source_file |-> <<>>, target_file |-> <<>>, overwrite |-> FALSE]
IdleMover ==
    /\ mover = Counts(0, 0, 0)
    /\ mv_call = NoCall
    /\ mv_ret = FALSE

\* The tool is in its first run.
IdleMain ==
    /\ run = 1
    /\ fs1 = <<>>

\* No single call is under way: the variables of the calls are at rest.
IdleCalls ==
    /\ extract_arg = EmptyTaxonInfo
    /\ extract_ret = EmptyHierarchy
    /\ select_arg = OrdinaryScoring
    /\ select_ret = ReturnedNone
    /\ IdleMover
    /\ IdleMain

\* The source folder of the batch runs holding n images.
Folder(n) == [p \in {ImagePath(j) : j \in 1..n} |-> p]
image_folder == <<"in">>

InitBatch ==
    /\ pc = "start"
    /\ exc = ""
    /\ fs \in {Folder(n) : n \in 0..MaxImages}
    /\ output_file \in {AbsentFile, GarbageFile, ScalarFile}
    /\ image_files = <<>>
    /\ i = 0
    /\ all_results = <<>>
    /\ ret = <<>>
    /\ odd = 0
    /\ outcomes = <<>>
    /\ file0 = output_file
    /\ writes = <<>>
    /\ results = <<>>
    /\ k = 0
    /\ moved_count = 0
    /\ skipped_count = 0
    /\ log = <<>>
    /\ IdleCalls

\* ------------------------------------------------------------ batch_process_images
\* Resume without the early return: the images are enumerated although the
\* result file loaded.
ResumeReprocesses ==
    /\ pc = "start"
    /\ LoadsExisting(output_file)
    /\ image_files' = ListImageFiles(DOMAIN fs, image_folder)
    /\ pc' = "loop"
    /\ UNCHANGED <<exc, fs, output_file, i, all_results, ret, odd, outcomes,
                   file0, writes, org_vars, call_vars>>

\* Lines 29-35: the result file exists and loads: return its contents.
Resume ==
    /\ pc = "start"
    /\ LoadsExisting(output_file)
    /\ ret' = output_file.data
    /\ pc' = "returned"
    /\ UNCHANGED <<exc, fs, output_file, image_files, i, all_results, odd,
                   outcomes, file0, writes, org_vars, call_vars>>

\* Lines 29-52: no result file, or reading it failed: enumerate the images.
Enumerate ==
    /\ pc = "start"
    /\ ~LoadsExisting(output_file)
    /\ image_files' = ListImageFiles(DOMAIN fs, image_folder)
    /\ all_results' = <<>>
    /\ pc' = "loop"
    /\ UNCHANGED <<exc, fs, output_file, i, ret, odd, outcomes, file0, writes,
                   org_vars, call_vars>>

\* Collect with the result put in front of the list.
CollectInFront(acc, outcome) ==
    IF outcome.kind = "result" THEN <<outcome.value>> \o acc ELSE acc

\* Lines 60-64: a result is appended, None is not.
Collect(acc, outcome) ==
    IF outcome.kind = "result" THEN Append(acc, outcome.value) ELSE acc

\* Lines 54-64: the next image is processed. An exception of process_image
\* leaves batch_process_images (there is no try around the call).
ProcessNext ==
    /\ pc = "loop"
    /\ i < Len(image_files)
    /\ \E sc \in {OrdinaryScenario} \cup (IF odd < MaxOdd THEN OddScenarios ELSE {}) :
          LET outcome == process_image(image_files[i + 1], sc.scoring, sc.lineage)
          IN  /\ i' = i + 1
              /\ odd' = IF sc = OrdinaryScenario THEN odd ELSE odd + 1
              /\ outcomes' = Append(outcomes, outcome)
              /\ all_results' = Collect(all_results, outcome)
              /\ IF outcome.kind = "raise"
                 THEN pc' = "raised" /\ exc' = "process_image"
                 ELSE pc' = "sleep" /\ exc' = exc
    /\ UNCHANGED <<fs, output_file, image_files, ret, file0, writes, org_vars,
                 call_vars>>

\* CheckpointDue with another period.
CheckpointDueEveryEleven(n) == n % (CheckpointEvery + 1) = 0
CheckpointDueEveryFive(n) == n % (CheckpointEvery \div 2) = 0

\* Line 71: whether a checkpoint is due after the i-th image.
CheckpointDue(n) == n % CheckpointEvery = 0

\* Lines 66-71: the pause, then the test for the intermediate save.
Sleep ==
    /\ pc = "sleep"
    /\ pc' = IF CheckpointDue(i) THEN "open" ELSE "loop"
    /\ UNCHANGED <<exc, fs, output_file, batch_vars, org_vars, call_vars>>

\* open(output_file, 'w'): the file is created or cut to length 0.
OpenForWriting(at, next) ==
    /\ pc = at
    /\ output_file' = TruncatedFile
    /\ pc' = next
    /\ UNCHANGED <<exc, fs, batch_vars, org_vars, call_vars>>

\* open(output_file, 'w') raises OSError: nothing catches it in
\* batch_process_images.
OpenRaises(at) ==
    /\ pc = at
    /\ pc' = "raised"
    /\ exc' = "write"
    /\ UNCHANGED <<fs, output_file, batch_vars, org_vars, call_vars>>

\* json.dump writes the whole list and the with block closes the file.
DumpAll(at, next, final) ==
    /\ pc = at
    /\ output_file' = json_dump(all_results)
    /\ writes' = Append(writes, [i |-> i, final |-> final])
    /\ pc' = next
    /\ ret' = IF final THEN all_results ELSE ret
    /\ UNCHANGED <<exc, fs, image_files, i, all_results, odd, outcomes, file0,
                   org_vars, call_vars>>

\* A write of json.dump, or the close, raises OSError: the file keeps the part
\* written so far.
DumpRaises(at) ==
    /\ pc = at
    /\ pc' = "raised"
    /\ exc' = "write"
    /\ UNCHANGED <<fs, output_file, batch_vars, org_vars, call_vars>>

\* Lines 72-74: the intermediate save.
OpenCheckpoint == OpenForWriting("open", "dump")
OpenCheckpointRaises == OpenRaises("open")
DumpCheckpoint == DumpAll("dump", "loop", FALSE)
DumpCheckpointRaises == DumpRaises("dump")

\* LoopDone without the final save.
LoopDoneWithoutSave ==
    /\ pc = "loop"
    /\ i = Len(image_files)
    /\ pc' = "returned"
    /\ ret' = all_results
    /\ UNCHANGED <<exc, fs, output_file, image_files, i, all_results, odd,
                   outcomes, file0, writes, org_vars, call_vars>>

\* Lines 76-83: after the loop, the final save and the return.
LoopDone ==
    /\ pc = "loop"
    /\ i = Len(image_files)
    /\ pc' = "open_final"
    /\ UNCHANGED <<exc, fs, output_file, batch_vars, org_vars, call_vars>>
OpenFinal == OpenForWriting("open_final", "dump_final")
OpenFinalRaises == OpenRaises("open_final")
DumpFinal == DumpAll("dump_final", "returned", TRUE)
DumpFinalRaises == DumpRaises("dump_final")

\* ------------------------------------------------------------ main
Running == pc \in {"start", "loop", "sleep", "open", "dump", "open_final", "dump_final"}
Ended == pc \in {"returned", "raised", "cancelled"}

\* Lines 289-290: the operator interrupts the run (KeyboardInterrupt reaches
\* main from wherever the run is); a with block in progress closes its file.
Interrupt ==
    /\ Running
    /\ pc' = "cancelled"
    /\ exc' = "KeyboardInterrupt"
    /\ UNCHANGED <<fs, output_file, batch_vars, org_vars, call_vars>>

\* The tool is started again after a run has ended: main calls
\* batch_process_images anew, with the files as the ended run left them.
Restart ==
    /\ Ended
    /\ pc' = "start"
    /\ exc' = ""
    /\ image_files' = <<>>
    /\ i' = 0
    /\ all_results' = <<>>
    /\ ret' = <<>>
    /\ odd' = 0
    /\ outcomes' = <<>>
    /\ file0' = output_file
    /\ writes' = <<>>
    /\ UNCHANGED <<fs, output_file, org_vars, call_vars>>

NextBatch ==
    \/ Resume
    \/ Enumerate
    \/ ProcessNext
    \/ Sleep
    \/ OpenCheckpoint
    \/ OpenCheckpointRaises
    \/ DumpCheckpoint
    \/ DumpCheckpointRaises
    \/ LoopDone
    \/ OpenFinal
    \/ OpenFinalRaises
    \/ DumpFinal
    \/ DumpFinalRaises
    \/ Interrupt
    \/ Restart

Spec == InitBatch /\ [][NextBatch]_vars

\* ------------------------------------------------------------ move_images_by_classification
\* Lines 198-200: the directory names for unset slots (the source's
\* "unknown subfamily", "unknown tribe", "unknown genus" in Chinese).
UnknownSubfamily == "unknown_subfamily"
UnknownTribe == "unknown_tribe"
UnknownGenus == "unknown_genus"
\* Python's `x or d` on a string or None: None and '' are false.
OrElse(x, d) == IF x = NoneS \/ x = "" THEN d ELSE x

target_base_dir == <<"out">>
\* Lines 198-202: os.path.join(target_base_dir, subfamily, tribe, genus).
TargetDir(hierarchy) ==
    target_base_dir \o <<OrElse(hierarchy.subfamily, UnknownSubfamily),
                         OrElse(hierarchy.tribe, UnknownTribe),
                         OrElse(hierarchy.genus, UnknownGenus)>>

\* os.path.splitext(filename)[0]: the name without its last extension.
BaseName(filename) ==
    IF Len(filename.exts) = 0 THEN filename
    ELSE Name(filename.stem, SubSeq(filename.exts, 1, Len(filename.exts) - 1))
\* file.startswith(base_name + '.')
StartsWithBaseDot(file, base_name) ==
    /\ file.stem = base_name.stem
    /\ Len(file.exts) > Len(base_name.exts)
    /\ SubSeq(file.exts, 1, Len(base_name.exts)) = base_name.exts
\* os.listdir(source_dir): the names of the files in the directory.
ListDir(files, dir) == {q.name : q \in {p \in DOMAIN files : p.dir = dir}}
\* Lines 221-222: the names the loop over the listing moves.
Sidecars(files, source_dir, filename) ==
    {file \in ListDir(files, source_dir) :
        StartsWithBaseDot(file, BaseName(filename)) /\ file # filename}

\* shutil.move(src, dst) of a file onto a file path: a file already at dst is
\* replaced; moving a file onto itself changes nothing.
MoveFile(files, src, dst) ==
    IF src = dst THEN files
    ELSE [p \in (DOMAIN files \ {src}) \cup {dst} |->
             IF p = dst THEN files[src] ELSE files[p]]
\* shutil.move that fell back to copying (os.rename raised) and then could
\* not remove the source: the copy is at dst, the source is still there.
CopyFile(files, src, dst) ==
    IF src = dst THEN files
    ELSE [p \in DOMAIN files \cup {dst} |-> IF p = dst THEN files[src] ELSE files[p]]
\* The moves of the listed names from one directory into another.
RECURSIVE MoveNames(_, _, _, _)
MoveNames(files, names, from, to) ==
    IF names = {} THEN files
    ELSE LET f == CHOOSE x \in names : TRUE
         IN  MoveNames(MoveFile(files, Path(from, f), Path(to, f)),
                       names \ {f}, from, to)

\* The state the loop of move_images_by_classification works on.
OrgState(files, rs, moved, skipped) ==
    [fs |-> files, results |-> rs, moved_count |-> moved, skipped_count |-> skipped]

\* HandleResult with the path rewritten before the move is tried.
HandleResultRewritesFirst(st, n, how, done) ==
    LET result == st.results[n]
        image_path == result.image_path
        target_dir == TargetDir(result.hierarchy)
        target_path == Path(target_dir, image_path.name)
        rewritten == [st.results EXCEPT ![n].image_path = target_path]
        moved == MoveFile(st.fs, image_path, target_path)
    IN  IF how = "primary_fails"
        THEN OrgState(st.fs, rewritten, st.moved_count, st.skipped_count + 1)
        ELSE IF how = "primary_fails_copied"
        THEN OrgState(CopyFile(st.fs, image_path, target_path), rewritten,
                      st.moved_count, st.skipped_count + 1)
        ELSE IF how \in {"listdir_fails", "sidecar_fails"}
        THEN OrgState(MoveNames(moved, done, image_path.dir, target_dir),
                      rewritten, st.moved_count + 1, st.skipped_count + 1)
        ELSE OrgState(MoveNames(moved, done, image_path.dir, target_dir),
                      rewritten, st.moved_count + 1, st.skipped_count)

\* Lines 194-234: the loop body for the n-th result. how: "primary_fails"
\* (shutil.move of the image raises and has changed nothing),
\* "primary_fails_copied" (it raises after it copied the image to the target,
\* when removing the source), "listdir_fails" (os.listdir raises),
\* "sidecar_fails" (the move of a listed file raises, after those in `done`
\* were moved) or "ok"; `done`: the listed names moved.
HandleResult(st, n, how, done) ==
    LET result == st.results[n]
        image_path == result.image_path
        target_dir == TargetDir(result.hierarchy)
        target_path == Path(target_dir, image_path.name)
        moved == MoveFile(st.fs, image_path, target_path)
    IN  IF how = "primary_fails"
        THEN OrgState(st.fs, st.results, st.moved_count, st.skipped_count + 1)
        ELSE IF how = "primary_fails_copied"
        THEN OrgState(CopyFile(st.fs, image_path, target_path), st.results,
                      st.moved_count, st.skipped_count + 1)
        ELSE IF how \in {"listdir_fails", "sidecar_fails"}
        THEN OrgState(MoveNames(moved, done, image_path.dir, target_dir),
                      st.results, st.moved_count + 1, st.skipped_count + 1)
        ELSE OrgState(MoveNames(moved, done, image_path.dir, target_dir),
                      [st.results EXCEPT ![n].image_path = target_path],
                      st.moved_count + 1, st.skipped_count)

\* The ways the loop body can go for the n-th result on the files `files`:
\* a missing image makes shutil.move raise; any move and the listing may raise
\* for a reason of the file system; a failing sidecar move comes after the
\* moves of any of the other listed names (the listing has no fixed order).
Ways(files, rs, n) ==
    LET image_path == rs[n].image_path
        target_path == Path(TargetDir(rs[n].hierarchy), image_path.name)
        listed == Sidecars(MoveFile(files, image_path, target_path),
                           image_path.dir, image_path.name)
    IN  {[how |-> "primary_fails", done |-> {}]}
        \cup (IF image_path \in DOMAIN files
              THEN {[how |-> "ok", done |-> listed],
                    [how |-> "primary_fails_copied", done |-> {}],
                    [how |-> "listdir_fails", done |-> {}]}
                   \cup {[how |-> "sidecar_fails", done |-> d] :
                            d \in (SUBSET listed) \ {listed}}
              ELSE {})

\* One pass of the for loop of move_images_by_classification.
OrganizeNext ==
    /\ pc = "organize"
    /\ k < Len(results)
    /\ \E w \in Ways(fs, results, k + 1) :
          LET st == HandleResult(OrgState(fs, results, moved_count, skipped_count),
                                 k + 1, w.how, w.done)
          IN  /\ fs' = st.fs
              /\ results' = st.results
              /\ moved_count' = st.moved_count
              /\ skipped_count' = st.skipped_count
              /\ log' = Append(log,
                     [how |-> w.how, done |-> w.done,
                      src |-> results[k + 1].image_path,
                      dst |-> Path(TargetDir(results[k + 1].hierarchy),
                                   results[k + 1].image_path.name),
                      present |-> results[k + 1].image_path \in DOMAIN fs])
    /\ k' = k + 1
    /\ UNCHANGED <<pc, exc, output_file, batch_vars, call_vars>>

\* Lines 188 and 203: os.makedirs raises (it is outside the try): the
\* exception leaves move_images_by_classification.
MakedirsRaises ==
    /\ pc = "organize"
    /\ k < Len(results)
    /\ pc' = "raised"
    /\ exc' = "makedirs"
    /\ UNCHANGED <<fs, output_file, batch_vars, org_vars, call_vars>>

\* OrganizeDone with the result file rewritten from the organized results.
OrganizeDoneSavingPaths ==
    /\ pc = "organize"
    /\ k = Len(results)
    /\ pc' = "organized"
    /\ output_file' = json_dump(results)
    /\ UNCHANGED <<exc, fs, batch_vars, org_vars, call_vars>>

\* Lines 236-240: the loop is over, the tallies are printed.
OrganizeDone ==
    /\ pc = "organize"
    /\ k = Len(results)
    /\ pc' = "organized"
    /\ UNCHANGED <<exc, fs, output_file, batch_vars, org_vars, call_vars>>

\* ------------------------------------------------------------ the organizer alone
\* The largest number of results handed to move_images_by_classification.
MaxResults == 2

\* The files the organizer runs are drawn from: an image, its sidecar, an
\* image of the same stem, an image whose name begins like the first one's,
\* a file of another stem, the same file name in a subdirectory, and one more
\* image. A file's content is
\* named after the path it has at the start.
FileUniverse ==
    [p \in { Path(<<"in">>, Name(1, <<"JPG">>)),
             Path(<<"in">>, Name(1, <<"XMP">>)),
             Path(<<"in">>, Name(1, <<"png">>)),
             Path(<<"in">>, Name(1, <<"v2", "jpg">>)),
             Path(<<"in">>, Name(10, <<"XMP">>)),
             Path(<<"in", "sub">>, Name(1, <<"JPG">>)),
             Path(<<"in">>, Name(2, <<"png">>)) } |-> p]
\* The hierarchies of the results.
OrgHierarchies ==
    { Hierarchy("Arctiinae", "Arctiini", "Spilosoma"),
      Hierarchy("Erebidae", NoneS, "") }
ResultFor(image_path, hierarchy) ==
    [image_path |-> image_path, photo_id |-> NoneS, taxon_id |-> 7,
     taxon_name |-> "Spilosoma", common_name |-> NoneS, score |-> 950,
     hierarchy |-> hierarchy]
\* The result lists a batch run over the universe's images can hand over: a
\* result for some of the images, in enumeration order.
ResultLists ==
    LET images == ListImageFiles(DOMAIN FileUniverse, image_folder)
        picks == UNION {[1..n -> (1..Len(images)) \X OrgHierarchies] : n \in 0..MaxResults}
    IN  {[j \in 1..Len(c) |-> ResultFor(images[c[j][1]], c[j][2])] :
            c \in {d \in picks : \A a, b \in 1..Len(d) : a < b => d[a][1] < d[b][1]}}

InitOrganize ==
    /\ pc = "organize"
    /\ exc = ""
    /\ \E present \in SUBSET DOMAIN FileUniverse :
          fs = [p \in present |-> FileUniverse[p]]
    /\ output_file = AbsentFile
    /\ image_files = <<>>
    /\ i = 0
    /\ all_results = <<>>
    /\ ret = <<>>
    /\ odd = 0
    /\ outcomes = <<>>
    /\ file0 = output_file
    /\ writes = <<>>
    /\ results \in ResultLists
    /\ k = 0
    /\ moved_count = 0
    /\ skipped_count = 0
    /\ log = <<>>
    /\ IdleCalls

NextOrganize ==
    \/ OrganizeNext
    \/ MakedirsRaises
    \/ OrganizeDone

SpecOrganize == InitOrganize /\ [][NextOrganize]_vars

\* ============================================================ claims
\* The run in progress began without a result file it could load.
FreshRun == ~(file0.kind = "list")
\* The results of the successful images among `outs`, in their order.
SuccessesOf(outs) ==
    LET ok == SelectSeq(outs, LAMBDA o : o.kind = "result")
    IN  [j \in 1..Len(ok) |-> ok[j].value]
\* What a run that resumed has to show: it returned the file's contents (or
\* was interrupted before it read the file), scored nothing, wrote nothing.
ResumedCleanly ==
    /\ pc \in {"start", "returned", "cancelled"}
    /\ pc = "returned" => ret = file0.data
    /\ outcomes = <<>>
    /\ writes = <<>>
    /\ output_file = file0

\* C1 as stated: whenever the checkpoint file exists and parses as JSON, the
\* call returns the parsed contents without a scoring call or a write.
C1_ResumeWheneverFileParses ==
    file0.kind \in {"scalar", "list"} => ResumedCleanly

\* C1 as amended: whenever the checkpoint file exists and parses to a list (a
\* value len() accepts), the call returns exactly the parsed contents, scores
\* no image and writes nothing, whatever the folder holds.
C1_ResumeWhenFileHoldsList ==
    file0.kind = "list" => ResumedCleanly

\* C1's case: a run returned a stored list shorter than the folder's images.
C1_Witness ==
    /\ pc = "returned"
    /\ file0.kind = "list"
    /\ Len(ret) > 0
    /\ Len(ret) < Cardinality(DOMAIN fs)
    /\ outcomes = <<>>

\* The dumps a fresh run has completed when n images are processed: one after
\* the 10th, 20th, ... image.
CadenceUpTo(n) == [j \in 1..(n \div 10) |-> [i |-> 10 * j, final |-> FALSE]]

\* C2: in a fresh run the file is overwritten with the whole accumulated list
\* exactly after the 10th, 20th, ... processed image, failed ones counted, and
\* once more after the last; after the return the file has as many entries as
\* images succeeded.
C2_CheckpointCadence ==
    FreshRun =>
       /\ pc = "loop" =>
            /\ writes = CadenceUpTo(i)
            /\ i >= 10 =>
                 output_file =
                    FileOf("list", SuccessesOf(SubSeq(outcomes, 1, 10 * (i \div 10))))
       /\ pc = "returned" =>
            /\ writes = Append(CadenceUpTo(Len(image_files)),
                               [i |-> Len(image_files), final |-> TRUE])
            /\ output_file.kind = "list"
            /\ output_file.data = SuccessesOf(outcomes)
            /\ Len(output_file.data)
                 = Cardinality({j \in 1..Len(outcomes) : outcomes[j].kind = "result"})

\* C2's case: a run of 20 images, one of them failed, returned after the
\* dumps at 10, at 20 and the final one.
C2_Witness ==
    /\ pc = "returned"
    /\ FreshRun
    /\ Len(image_files) = 20
    /\ Len(writes) = 3
    /\ Len(output_file.data) = 19

\* C3: whichever images give no result, a fresh run that returns has processed
\* every enumerated image, and returns exactly the results of the successful
\* ones in enumeration order; an image without result never ends the run.
C3_PartialFailureIsolation ==
    /\ (FreshRun /\ pc = "returned") =>
          /\ Len(image_files) = Cardinality(DOMAIN fs)
          /\ Len(outcomes) = Len(image_files)
          /\ \A j \in 1..Len(outcomes) :
                outcomes[j].kind = "result"
                   => outcomes[j].value.image_path = image_files[j]
          /\ ret = SuccessesOf(outcomes)
    /\ (Len(outcomes) > 0 /\ outcomes[Len(outcomes)].kind = "none")
          => ~(pc = "raised" /\ exc = "process_image")

\* C3's case: five images, the third failed, four results returned in order.
C3_Witness ==
    /\ pc = "returned"
    /\ Len(image_files) = 5
    /\ outcomes[3].kind = "none"
    /\ Len(ret) = 4
    /\ ret[3].image_path = image_files[4]

\* C4 as stated: an I/O error while writing the checkpoint never ends
\* batch_process_images.
C4_WriteFailureSwallowed == ~(pc = "raised" /\ exc = "write")

\* C5 as stated: no outcome of the scoring call or the lineage lookup makes
\* process_image raise into batch_process_images.
C5_NoItemErrorReachesDriver == ~(pc = "raised" /\ exc = "process_image")

\* The images processed so far whose outcome no complete dump on disk covers.
Unpersisted ==
    IF output_file.kind = "list" /\ writes # <<>>
    THEN i - writes[Len(writes)].i
    ELSE i

\* C6 as stated: wherever a fresh run can crash, at most 9 processed images
\* are missing from the file on disk.
C6_AtMostNineUnpersisted ==
    (FreshRun /\ Running) => Unpersisted <= 9

\* C6 as amended: at most 9 processed images are missing from the file
\* wherever a fresh run can crash outside a checkpoint write and outside the
\* pause between a 10th, 20th, ... image and its write; in that pause 10 are
\* missing.
C6_AtMostNineBetweenCheckpoints ==
    FreshRun =>
       /\ (pc \in {"loop", "open_final"} \/ (pc = "sleep" /\ i % 10 # 0))
             => Unpersisted <= 9
       /\ pc \in {"sleep", "open"} => Unpersisted <= 10

\* C6's case: 19 images processed, the dump after the 10th on disk.
C6_Witness ==
    /\ FreshRun
    /\ pc = "loop"
    /\ i = 19
    /\ Unpersisted = 9
    /\ output_file.kind = "list"

\* C7 as stated: an interrupt, at any point, leaves the checkpoint file as it
\* was before the run or holding a complete list.
C7_InterruptLeavesFileWhole ==
    pc = "cancelled" => (output_file = file0 \/ output_file.kind = "list")

\* C8 as stated: a run over 20 images that dies after item 5 leaves a file
\* holding the results obtained so far.
C8_DeathAfterFiveLeavesFive ==
    (FreshRun /\ pc = "cancelled" /\ Len(image_files) = 20 /\ i = 5)
       => output_file = FileOf("list", all_results)

\* C8 as amended: a run over 20 images that dies after item 5 has written no
\* checkpoint, the file is as it was before the run, and a restarted run,
\* finding nothing to load, processes all the images; a run that dies after
\* the checkpoint of item 10 is written and before the one of item 20 is begun
\* leaves the results of the first 10 images, and a run that finds them
\* returns exactly them and processes no image.
C8_DeathBeforeFirstCheckpoint ==
    /\ (FreshRun /\ pc \in {"cancelled", "raised"}
          /\ i < 10 /\ i < Len(image_files))
          => (output_file = file0 /\ ~(output_file.kind = "list"))
    /\ (FreshRun /\ pc = "returned") => Len(outcomes) = Cardinality(DOMAIN fs)
    /\ (FreshRun /\ pc = "cancelled" /\ Len(image_files) = 20
          /\ Len(writes) = 1 /\ output_file.kind # "truncated")
          => output_file = FileOf("list", SuccessesOf(SubSeq(outcomes, 1, 10)))
    /\ (file0.kind = "list" /\ pc = "returned")
          => (ret = file0.data /\ outcomes = <<>>)

\* C8's case: the run over 20 images died after item 5 with no file on disk.
C8_Witness ==
    /\ pc = "cancelled"
    /\ Len(image_files) = 20
    /\ i = 5
    /\ Len(all_results) = 5
    /\ file0 = AbsentFile
    /\ output_file = AbsentFile

\* The ways in which the move of the image itself fails.
PrimaryFailures == {"primary_fails", "primary_fails_copied"}

\* C9: when the move of a result's image fails, the result keeps its
\* image_path, every file stays where it was (the image, and each sidecar),
\* the result is counted as skipped and not as moved, and the loop goes on to
\* the next result: a finished call has handled every result, in list order.
C9_PrimaryFailureIsolated ==
    /\ [][(k' = k + 1 /\ log'[k'].how \in PrimaryFailures) =>
             /\ results' = results
             /\ \A p \in DOMAIN fs :
                   p # log'[k'].dst => (p \in DOMAIN fs' /\ fs'[p] = fs[p])
             /\ log'[k'].src \in DOMAIN fs
                   => (log'[k'].src \in DOMAIN fs'
                       /\ fs'[log'[k'].src] = fs[log'[k'].src])
             /\ skipped_count' = skipped_count + 1
             /\ moved_count' = moved_count
             /\ pc' = "organize"]_vars
    /\ [](pc = "organized" =>
             /\ Len(log) = Len(results)
             /\ \A j \in 1..Len(log) :
                   log[j].how \in PrimaryFailures
                      => (log[j].done = {} /\ results[j].image_path = log[j].src))

\* C9's case: the move of the first image failed although the image and a
\* sidecar of it were there, and the second result was moved.
C9_Witness ==
    /\ pc = "organized"
    /\ Len(log) = 2
    /\ log[1].how \in PrimaryFailures
    /\ log[1].present
    /\ log[1].src \in DOMAIN fs
    /\ Path(<<"in">>, Name(1, <<"XMP">>)) \in DOMAIN fs
    /\ log[1].src = Path(<<"in">>, Name(1, <<"JPG">>))
    /\ log[2].how = "ok"
    /\ skipped_count = 1
    /\ moved_count = 1

\* C10 as stated: when the call returns, every result whose image was moved
\* has image_path equal to the image's new place, whatever became of its
\* sidecars.
C10_ImagePathFollowsFile ==
    pc = "organized" =>
       \A j \in 1..Len(log) :
          log[j].how \notin PrimaryFailures => results[j].image_path = log[j].dst

\* The result handled by the step just taken went through without an error.
HandledOk == k' = k + 1 /\ log'[k'].how = "ok"
\* p has the stem of the image at src (os.path.splitext) and is another file
\* of the image's directory.
SameStemSibling(p, src) ==
    p # src /\ p.dir = src.dir /\ BaseName(p.name) = BaseName(src.name)

\* C11 as stated: after a result's image is moved, every other file of its
\* directory with the same stem is in the same target directory, and no file
\* with another stem (1.v2.jpg or 10.XMP next to 1.JPG) is moved or changed.
C11_SiblingCoMovement ==
    [][HandledOk =>
          \A p \in DOMAIN fs \ {log'[k'].src} :
             IF SameStemSibling(p, log'[k'].src)
             THEN LET q == Path(log'[k'].dst.dir, p.name)
                  IN  p \notin DOMAIN fs' /\ q \in DOMAIN fs' /\ fs'[q] = fs[p]
             ELSE BaseName(p.name) # BaseName(log'[k'].src.name)
                     => (p \in DOMAIN fs' /\ fs'[p] = fs[p])]_vars

\* The step just taken handled a result whose image was moved and one of
\* whose sidecar moves raised.
SidecarFailed == k' = k + 1 /\ log'[k'].how = "sidecar_fails"
\* The names the sidecar loop of the result just handled had to move.
ListedFor(entry, files) ==
    Sidecars(MoveFile(files, entry.src, entry.dst), entry.src.dir, entry.src.name)

\* C12 as stated: a failing sidecar move leaves the image at its target,
\* leaves no other sidecar of the result behind, and leaves the result counted
\* as moved and not as skipped.
C12_SidecarFailureIndependent ==
    [][SidecarFailed =>
          /\ log'[k'].dst \in DOMAIN fs'
          /\ fs'[log'[k'].dst] = fs[log'[k'].src]
          /\ Cardinality(ListedFor(log'[k'], fs) \ log'[k'].done) <= 1
          /\ moved_count' = moved_count + 1
          /\ skipped_count' = skipped_count]_vars

\* The places at which the file that began at path c is now.
PlacesOf(c) == {p \in DOMAIN fs : fs[p] = c}

\* C13 as stated: when the call returns, the image of every result is at its
\* original path or in the directory of the result's own subfamily, tribe and
\* genus (placeholders for unset slots), and nowhere else.
C13_OwnLineageOnly ==
    pc = "organized" =>
       \A j \in 1..Len(log) :
          /\ PlacesOf(log[j].src) \subseteq {log[j].src, log[j].dst}
          /\ log[j].present => PlacesOf(log[j].src) # {}

\* C19 as stated: when the call finishes, every result was counted exactly
\* once, as moved or as skipped: the tallies add up to the number of results
\* and moved_count is the number of results whose image was moved.
C19_TalliesPartitionResults ==
    pc = "organized" =>
       /\ moved_count + skipped_count = Len(results)
       /\ moved_count
            = Cardinality({j \in 1..Len(log) : log[j].how \notin PrimaryFailures})

\* C20 as stated: no step of the organizer loses a file: whatever existed
\* before a result is handled exists afterwards, at some path, and no move
\* replaces a file already at its target.
C20_NoFileLost ==
    [][\A p \in DOMAIN fs : \E q \in DOMAIN fs' : fs'[q] = fs[p]]_vars

\* ============================================================ single calls
\* Everything of main's runs at rest: the state in which one method is called
\* by itself.
AtRest ==
    /\ exc = ""
    /\ output_file = AbsentFile
    /\ image_files = <<>>
    /\ i = 0
    /\ all_results = <<>>
    /\ ret = <<>>
    /\ odd = 0
    /\ outcomes = <<>>
    /\ file0 = AbsentFile
    /\ writes = <<>>
    /\ results = <<>>
    /\ k = 0
    /\ moved_count = 0
    /\ skipped_count = 0
    /\ log = <<>>

\* ------------------------------------------------------------ extract_hierarchy alone
\* The largest number of ancestors of a lineage.
MaxAncestors == 2
\* The ranks of the nodes: the four the scan looks for, one in other case, one
\* it does not know, a missing key and null.
LineageRanks ==
    { Str("family"), Str("subfamily"), Str("tribe"), Str("genus"), Str("Genus"),
      Str("order"), MissingS, NullS }
\* The name of the ancestor at a position; the node itself is named "self".
AncestorNames == <<"a1", "a2", "a3", "a4">>
AncestorLists ==
    {[j \in 1..Len(f) |-> Node(f[j], Str(AncestorNames[j]))] :
        f \in UNION {[1..n -> LineageRanks] : n \in 0..MaxAncestors}}
\* The lineages extract_hierarchy is called with: a node with its ancestors,
\* root first, and a node whose 'ancestors' is missing or null.
Lineages ==
    {TaxonInfo(FALSE, r, Str("self"), "list", a) :
        r \in LineageRanks, a \in AncestorLists}
    \cup {TaxonInfo(FALSE, r, Str("self"), ak, <<>>) :
             r \in LineageRanks, ak \in {"missing", "null"}}

InitHierarchy ==
    /\ pc = "extract"
    /\ fs = Folder(0)
    /\ AtRest
    /\ extract_arg \in Lineages
    /\ extract_ret = EmptyHierarchy
    /\ select_arg = OrdinaryScoring
    /\ select_ret = ReturnedNone
    /\ IdleMover
    /\ IdleMain

\* hierarchy = self.extract_hierarchy(detailed_info)
ExtractHierarchy ==
    /\ pc = "extract"
    /\ pc' = "extracted"
    /\ extract_ret' = extract_hierarchy(extract_arg)
    /\ UNCHANGED <<exc, fs, output_file, batch_vars, org_vars, extract_arg,
                   select_vars, mover_vars, main_vars>>

NextHierarchy == ExtractHierarchy

SpecHierarchy == InitHierarchy /\ [][NextHierarchy]_vars

\* The nodes the scan goes over: the ancestors, then the node itself.
AllTaxa ==
    (IF extract_arg.ancestors.k = "list" THEN extract_arg.ancestors.v ELSE <<>>)
       \o <<Node(extract_arg.rank, extract_arg.name)>>
\* The positions of the nodes whose rank is r, compared as the claim says.
RankedExactly(r) == {j \in 1..Len(AllTaxa) : AllTaxa[j].rank = Str(r)}
RankedNoCase(r) ==
    {j \in 1..Len(AllTaxa) :
        AllTaxa[j].rank.k = "val" /\ Lower(AllTaxa[j].rank.v) = r}
\* The lineage has nothing unusable in it: 'ancestors' is not null and every
\* node has a rank that is a string.
AllRanksGiven ==
    /\ extract_arg.ancestors.k # "null"
    /\ \A j \in 1..Len(AllTaxa) : AllTaxa[j].rank.k = "val"
\* The last position of a non-empty set of positions.
LastOf(S) == CHOOSE j \in S : \A m \in S : m <= j

\* C14 as stated, for the lineages with nothing unusable in them: if a node
\* has rank exactly subfamily, its name is in the subfamily slot, whatever the
\* order of the ranks; a family node's name is there only when no node has
\* rank subfamily.
C14_FamilyOnlyFallback ==
    (pc = "extracted" /\ AllRanksGiven) =>
       /\ RankedExactly("subfamily") # {} =>
             \E j \in RankedExactly("subfamily") :
                extract_ret.subfamily = AllTaxa[j].name.v
       /\ (\E j \in RankedExactly("family") :
              extract_ret.subfamily = AllTaxa[j].name.v)
             => RankedExactly("subfamily") = {}

\* What the claims say of one of the slots tribe and genus: it holds the name
\* of the last node of that rank, compared without case, or is unset.
LastWriteWins(slot, value) ==
    IF RankedNoCase(slot) = {} THEN value = NoneS
    ELSE value = AllTaxa[LastOf(RankedNoCase(slot))].name.v

\* C15 as stated, for the lineages whose 'ancestors' is a list or missing:
\* the tribe slot and the genus slot each hold the name of the last node of
\* that rank in the order ancestors, then the node itself, and are unset when
\* no node has the rank.
C15_LastWriteWins ==
    (pc = "extracted" /\ extract_arg.ancestors.k # "null") =>
       /\ LastWriteWins("tribe", extract_ret.tribe)
       /\ LastWriteWins("genus", extract_ret.genus)

\* The node's rank is one the scan assigns a slot for.
UsableNode(taxon) ==
    /\ taxon.rank.k = "val"
    /\ Lower(taxon.rank.v) \in {"family", "subfamily", "tribe", "genus"}

\* C16 as stated, for the lineages whose 'ancestors' is a list or missing:
\* the call returns, and the nodes whose rank is missing, null or unknown are
\* skipped: the hierarchy is the one the other nodes alone give, so the nodes
\* after a node without a rank still fill their slots.
C16_UnusableNodesSkipped ==
    (pc = "extracted" /\ extract_arg.ancestors.k # "null") =>
       extract_ret = ScanTaxa(SelectSeq(AllTaxa, UsableNode), 1, EmptyHierarchy)

\* ------------------------------------------------------------ the selection alone
\* The largest number of candidates in a scoring answer.
MaxCandidates == 2
\* The candidates of a scoring answer: score (in thousandths) given or
\* omitted, taxon given or omitted.
Candidates ==
    {[score |-> s, taxon |-> x] :
        s \in {MissingI, Num(500), Num(900)},
        x \in {NoTaxon("missing"),
               TaxonField("dict", Num(7), Str("Spilosoma"), Str("ermine")),
               TaxonField("dict", Num(8), Str("Arctia"), MissingS)}}
\* The scoring answers: common_ancestor missing, null, one candidate record,
\* or a list of candidate records.
SelectAnswers ==
    {ScoreAnswer("ok", 200, NoCommonAncestor(m)) : m \in {"missing", "null"}}
    \cup {ScoreAnswer("ok", 200, CommonAncestor("dict", c.score, c.taxon)) :
             c \in Candidates}
    \cup {ScoreAnswer("ok", 200, CandidateList(l)) :
             l \in UNION {[1..n -> Candidates] : n \in 0..MaxCandidates}}

InitSelect ==
    /\ pc = "select"
    /\ fs = Folder(1)
    /\ AtRest
    /\ extract_arg = EmptyTaxonInfo
    /\ extract_ret = EmptyHierarchy
    /\ select_arg \in SelectAnswers
    /\ select_ret = ReturnedNone
    /\ IdleMover
    /\ IdleMain

\* result = uploader.process_image(image_path), the lineage lookup answered
\* in the ordinary way.
SelectBest ==
    /\ pc = "select"
    /\ pc' = "selected"
    /\ select_ret' = process_image(ImagePath(1), select_arg, OrdinaryLineage)
    /\ UNCHANGED <<exc, fs, output_file, batch_vars, org_vars, extract_vars,
                   select_arg, mover_vars, main_vars>>

NextSelect == SelectBest

SpecSelect == InitSelect /\ [][NextSelect]_vars

\* The candidate set of the answer given to process_image.
CandidateSet ==
    LET ca == select_arg.json.common_ancestor
    IN  IF ca.k = "list" THEN ca.items
        ELSE IF ca.k = "dict" THEN <<[score |-> ca.score, taxon |-> ca.taxon]>>
        ELSE <<>>
\* A candidate's score, 0 when omitted.
ScoreOf(c) == IF c.score.k = "val" THEN c.score.v ELSE 0
\* The first of the candidates with the highest score.
BestCandidate ==
    CandidateSet[CHOOSE j \in 1..Len(CandidateSet) :
                    /\ \A m \in 1..Len(CandidateSet) :
                          ScoreOf(CandidateSet[m]) <= ScoreOf(CandidateSet[j])
                    /\ \A m \in 1..(j - 1) :
                          ScoreOf(CandidateSet[m]) < ScoreOf(CandidateSet[j])]

\* C17 as stated: with a non-empty candidate set the result carries the taxon
\* id, the taxon name and the score (0 when omitted) of the first candidate of
\* the highest score; an empty set, or a best candidate without a taxon, gives
\* no result.
C17_BestCandidateSelected ==
    pc = "selected" =>
       IF CandidateSet = <<>> \/ BestCandidate.taxon.k # "dict"
       THEN select_ret = ReturnedNone
       ELSE /\ select_ret.kind = "result"
            /\ select_ret.value.taxon_id = BestCandidate.taxon.id.v
            /\ select_ret.value.taxon_name = GetS(BestCandidate.taxon.name)
            /\ select_ret.value.score = ScoreOf(BestCandidate)

\* ------------------------------------------------------------ FileMover.move_single_file
\* What one call of move_single_file leaves: the files, the counters of the
\* FileMover, the value returned.
Moved(files, self, returned) == [fs |-> files, self |-> self, returned |-> returned]

\* move_single_file without the test of `overwrite`.
move_single_file_overwriting(files, self, source_file, target_file, overwrite, how) ==
    IF source_file \notin DOMAIN files \/ how \in {"mkdir_fails", "move_fails"}
    THEN Moved(files, [self EXCEPT !.error_count = @ + 1], FALSE)
    ELSE IF how = "move_fails_copied"
    THEN Moved(CopyFile(files, source_file, target_file),
               [self EXCEPT !.error_count = @ + 1], FALSE)
    ELSE Moved(MoveFile(files, source_file, target_file),
               [self EXCEPT !.moved_count = @ + 1], TRUE)

\* FileMover.move_single_file, lines 34-74. how: "mkdir_fails" (creating the
\* target's directory raises), "move_fails" (shutil.move raises and has
\* changed nothing), "move_fails_copied" (shutil.move raises after it copied
\* the source to the target, when removing the source) or "ok".
move_single_file(files, self, source_file, target_file, overwrite, how) ==
    IF source_file \notin DOMAIN files
    THEN Moved(files, [self EXCEPT !.error_count = @ + 1], FALSE)
    ELSE IF how = "mkdir_fails"
    THEN Moved(files, [self EXCEPT !.error_count = @ + 1], FALSE)
    ELSE IF target_file \in DOMAIN files /\ ~overwrite
    THEN Moved(files, [self EXCEPT !.skipped_count = @ + 1], FALSE)
    ELSE IF how = "move_fails"
    THEN Moved(files, [self EXCEPT !.error_count = @ + 1], FALSE)
    ELSE IF how = "move_fails_copied"
    THEN Moved(CopyFile(files, source_file, target_file),
               [self EXCEPT !.error_count = @ + 1], FALSE)
    ELSE Moved(MoveFile(files, source_file, target_file),
               [self EXCEPT !.moved_count = @ + 1], TRUE)

\* The largest number of calls made on one FileMover.
MaxCalls == 2
\* The files of a FileMover's source and target directory; a file's content is
\* named after the path it has at the start.
source_dir == <<"from">>
target_dir == <<"to">>
MoverSources == {Path(source_dir, Name(n, <<"jpg">>)) : n \in 1..2}
MoverTargets ==
    {Path(target_dir, Name(1, <<"jpg">>)),
     Path(target_dir \o <<"sub">>, Name(2, <<"jpg">>))}
\* The ways a call can go. target_path.parent.mkdir(parents=True,
\* exist_ok=True) can only raise for a directory that is not there: not for
\* target_dir, which __init__ made, nor for a directory holding a file.
MoverWays(files, target_file) ==
    {"ok", "move_fails", "move_fails_copied"}
    \cup (IF target_file.dir # target_dir
             /\ ~\E p \in DOMAIN files : p.dir = target_file.dir
          THEN {"mkdir_fails"} ELSE {})
CallsMade == mover.moved_count + mover.skipped_count + mover.error_count

InitMover ==
    /\ pc = "mover"
    /\ \E present \in SUBSET (MoverSources \cup MoverTargets) :
          fs = [p \in present |-> p]
    /\ AtRest
    /\ extract_arg = EmptyTaxonInfo
    /\ extract_ret = EmptyHierarchy
    /\ select_arg = OrdinaryScoring
    /\ select_ret = ReturnedNone
    /\ IdleMover
    /\ IdleMain

\* One call mover.move_single_file(source_file, target_file, overwrite).
MoveSingleFile ==
    /\ pc = "mover"
    /\ CallsMade < MaxCalls
    /\ \E source_file \in MoverSources, target_file \in MoverTargets,
          overwrite \in BOOLEAN :
       \E how \in MoverWays(fs, target_file) :
          LET after == move_single_file(fs, mover, source_file, target_file,
                                        overwrite, how)
          IN  /\ fs' = after.fs
              /\ mover' = after.self
              /\ mv_ret' = after.returned
              /\ mv_call' = [source_file |-> source_file,
                             target_file |-> target_file, overwrite |-> overwrite]
    /\ UNCHANGED <<pc, exc, output_file, batch_vars, org_vars, extract_vars,
                   select_vars, main_vars>>

NextMover == MoveSingleFile

SpecMover == InitMover /\ [][NextMover]_vars

\* The step is a call of move_single_file (each call adds to a counter).
Called == mover' # mover
\* Exactly one of the three counters went up, by 1.
OneCounted ==
    \E c \in {"moved_count", "skipped_count", "error_count"} :
       mover' = [mover EXCEPT ![c] = @ + 1]
\* What the accounting part of C18 says of a call.
AccountedFor ==
    /\ OneCounted
    /\ mv_ret' <=> (mover'.moved_count = mover.moved_count + 1)
    /\ (mv_call'.source_file \in DOMAIN fs /\ mv_call'.target_file \in DOMAIN fs
           /\ ~mv_call'.overwrite)
          => (fs' = fs /\ ~mv_ret'
              /\ mover'.skipped_count = mover.skipped_count + 1)
    /\ mv_call'.source_file \notin DOMAIN fs
          => (fs' = fs /\ ~mv_ret' /\ mover'.error_count = mover.error_count + 1)

\* C18 as stated: each call counts once, returns True exactly when it counted
\* a move, and when it returns False every file is where it was with the
\* content it had.
C18_FalseMeansUntouched ==
    [][Called =>
          /\ AccountedFor
          /\ ~mv_ret' =>
                \A p \in DOMAIN fs : p \in DOMAIN fs' /\ fs'[p] = fs[p]]_vars

\* C18 as amended: each call counts once and returns True exactly when it
\* counted a move; with overwrite=False an existing target makes it skip and a
\* missing source is an error, both without a change to the files; when it
\* returns False no file is gone from its path, and the only file that can be
\* new or changed is the target, holding a copy of the source, and an
\* existing target only when overwrite was given.
C18_FalseLeavesAtMostACopy ==
    [][Called =>
          /\ AccountedFor
          /\ ~mv_ret' =>
                /\ \A p \in DOMAIN fs :
                      /\ p \in DOMAIN fs'
                      /\ fs'[p] # fs[p] =>
                            (p = mv_call'.target_file /\ mv_call'.overwrite)
                /\ \A p \in DOMAIN fs' :
                      (p \notin DOMAIN fs \/ fs'[p] # fs[p]) =>
                         (p = mv_call'.target_file
                          /\ mv_call'.source_file \in DOMAIN fs
                          /\ fs'[p] = fs[mv_call'.source_file])]_vars

\* C18's case: after one file was moved, a call without overwrite met the
\* file at its target and skipped, leaving source and target as they were.
C18_Witness ==
    /\ pc = "mover"
    /\ mover = Counts(1, 1, 0)
    /\ ~mv_ret
    /\ ~mv_call.overwrite
    /\ mv_call.source_file \in DOMAIN fs
    /\ mv_call.target_file \in DOMAIN fs
    /\ fs[mv_call.source_file] = mv_call.source_file
    /\ fs[mv_call.target_file] # mv_call.target_file

\* ------------------------------------------------------------ main, run twice
\* The files of the image folder in the runs of the whole tool: an image, its
\* sidecar, and an image of the same name in a subdirectory. A file's content
\* is named after the path it has at the start.
MainUniverse ==
    [p \in { Path(<<"in">>, Name(1, <<"JPG">>)),
             Path(<<"in">>, Name(1, <<"XMP">>)),
             Path(<<"in", "sub">>, Name(1, <<"JPG">>)) } |-> p]

\* The tool is started in batch mode for the first time: no result file yet.
InitMain ==
    /\ pc = "start"
    /\ \E present \in SUBSET DOMAIN MainUniverse :
          fs = [p \in present |-> MainUniverse[p]]
    /\ AtRest
    /\ IdleCalls

\* Lines 280-284: batch_process_images returned a non-empty list: main calls
\* move_images_by_classification(results, target_path).
StartOrganize ==
    /\ pc = "returned"
    /\ ret # <<>>
    /\ pc' = "organize"
    /\ results' = ret
    /\ k' = 0
    /\ moved_count' = 0
    /\ skipped_count' = 0
    /\ log' = <<>>
    /\ UNCHANGED <<exc, fs, output_file, batch_vars, call_vars>>

\* Line 282: `if results:` is false for the empty list: main is done.
NothingToOrganize ==
    /\ pc = "returned"
    /\ ret = <<>>
    /\ pc' = "finished"
    /\ UNCHANGED <<exc, fs, output_file, batch_vars, org_vars, call_vars>>

\* The tool is started a second time after its first run completed, with the
\* files and the result file as the first run left them.
SecondRun ==
    /\ pc \in {"organized", "finished"}
    /\ run = 1
    /\ run' = 2
    /\ fs1' = fs
    /\ pc' = "start"
    /\ image_files' = <<>>
    /\ i' = 0
    /\ all_results' = <<>>
    /\ ret' = <<>>
    /\ odd' = 0
    /\ outcomes' = <<>>
    /\ file0' = output_file
    /\ writes' = <<>>
    /\ results' = <<>>
    /\ k' = 0
    /\ moved_count' = 0
    /\ skipped_count' = 0
    /\ log' = <<>>
    /\ UNCHANGED <<exc, fs, output_file, extract_vars, select_vars, mover_vars>>

\* The image folders here hold fewer images than CheckpointEvery, so no dump
\* inside the loop is due; runs that an error or the operator ends are not
\* completed runs and are left to Spec.
NextMain ==
    \/ Resume
    \/ Enumerate
    \/ ProcessNext
    \/ Sleep
    \/ LoopDone
    \/ OpenFinal
    \/ DumpFinal
    \/ StartOrganize
    \/ NothingToOrganize
    \/ OrganizeNext
    \/ MakedirsRaises
    \/ OrganizeDone
    \/ SecondRun

SpecMain == InitMain /\ [][NextMain]_vars

\* The second run is in, or past, its call of the organizer.
Organizing == pc \in {"organize", "organized"}
\* Every image of the stored results was moved away from its path by the
\* first run.
AllMovedBefore == \A j \in 1..Len(ret) : ret[j].image_path \notin DOMAIN fs1
\* The second run scored no image and left the result file alone.
NothingScored == outcomes = <<>> /\ writes = <<>> /\ output_file = file0

\* C21 as stated: the second run makes no scoring call, moves or overwrites
\* no file, counts every result as skipped, and leaves the files exactly as
\* the first run left them.
C21_SecondRunChangesNothing ==
    run = 2 =>
       /\ NothingScored
       /\ fs = fs1
       /\ moved_count = 0
       /\ pc = "organized" => skipped_count = Len(results)

\* C21 as amended: the result file never holds a path the organizer wrote;
\* the second run makes no scoring call; a result whose image the first run
\* moved away is counted as skipped and nothing is moved for it; the files
\* change only through a result whose image the first run left at its path;
\* when there is none, the files stay exactly as the first run left them and
\* every result is counted as skipped.
C21_SecondRunOnlyRetries ==
    /\ output_file.kind = "list" =>
          \A j \in 1..Len(output_file.data) :
             output_file.data[j].image_path \in DOMAIN MainUniverse
    /\ run = 2 =>
          /\ NothingScored
          /\ \A j \in 1..Len(log) :
                log[j].src \notin DOMAIN fs1 => log[j].how = "primary_fails"
          /\ fs # fs1 => \E j \in 1..Len(log) : log[j].src \in DOMAIN fs1
          /\ (Organizing /\ AllMovedBefore) =>
                /\ fs = fs1
                /\ moved_count = 0
                /\ pc = "organized" => skipped_count = Len(results)

\* C21's case: the first run moved two images and a sidecar; the second run
\* has returned the two stored results, counted both as skipped and left the
\* files as they were.
C21_Witness ==
    /\ run = 2
    /\ pc = "organized"
    /\ Len(results) = 2
    /\ AllMovedBefore
    /\ skipped_count = 2
    /\ moved_count = 0
    /\ fs = fs1
    /\ \E p \in DOMAIN fs : p.dir = TargetDir(results[1].hierarchy)
    /\ outcomes = <<>>

====
